---- MODULE Spec2Model ----
(***************************************************************************)
(* The cbor42 codec (src/src/encode.rs, src/src/decode.rs).                *)
(*                                                                         *)
(* The codec is a pair of stateless transformations between the generic    *)
(* Ipld value and a byte sequence.  The state of the model is one codec    *)
(* session: the value held in memory, the byte buffer (the sink of the     *)
(* last encode, the source of the next decode), the error of the last      *)
(* call, the bytes the last decode left unread, the last call with its     *)
(* arguments, and the log of the session.                                  *)
(*                                                                         *)
(* Numbers wider than 16 bits are little-endian sequences of 16-bit limbs  *)
(* (u32: 2 limbs, u64: 4 limbs, i128: 8 limbs in two's complement), since  *)
(* the checker's integers stop at 2^31-1.  u8 and u16 are plain naturals.  *)
(* usize is taken to be 64 bits wide.                                      *)
(***************************************************************************)
EXTENDS Integers, Sequences, FiniteSets, TLC

VARIABLES call, value, wire, err, unread, log

vars == <<call, value, wire, err, unread, log>>

-----------------------------------------------------------------------------
(* Fixed-width arithmetic on limbs                                         *)

Base == 256 * 256

Byte == 0..255

ZeroW(n) == [i \in 1..n |-> 0]

OnesW(n) == [i \in 1..n |-> Base - 1]

\* a usize/u32-sized natural (< 2^31) as an n-limb word, n >= 2
FromNat(x, n) == [i \in 1..n |-> IF i = 1 THEN x % Base ELSE IF i = 2 THEN x \div Base ELSE 0]

\* true when the word is small enough to be a natural of the checker
FitsNat(a) == /\ \A i \in 3..Len(a) : a[i] = 0
              /\ (Len(a) >= 2 => a[2] < Base \div 4)

ToNat(a) == IF Len(a) >= 2 THEN a[1] + a[2] * Base ELSE a[1]

RECURSIVE CarryInto(_, _, _)
\* the carry into limb i of a + b
CarryInto(a, b, i) ==
    IF i = 1 THEN 0 ELSE (a[i - 1] + b[i - 1] + CarryInto(a, b, i - 1)) \div Base

\* wrapping addition of two words of the same width
AddW(a, b) == [i \in 1..Len(a) |-> (a[i] + b[i] + CarryInto(a, b, i)) % Base]

NotW(a) == [i \in 1..Len(a) |-> Base - 1 - a[i]]

\* wrapping two's-complement negation
NegW(a) == AddW(NotW(a), FromNat(1, Len(a)))

SubW(a, b) == AddW(a, NegW(b))

\* sign of a two's-complement word
IsNegW(a) == a[Len(a)] >= Base \div 2

\* unsigned a < b
LtU(a, b) == \E i \in 1..Len(a) : /\ a[i] < b[i]
                                  /\ \A j \in (i + 1)..Len(a) : a[j] = b[j]

LeU(a, b) == a = b \/ LtU(a, b)

\* signed a < b
LtS(a, b) == IF IsNegW(a) # IsNegW(b) THEN IsNegW(a) ELSE LtU(a, b)

\* `x as uN` from a narrower unsigned type, or `uN::from(x)`
ZeroExt(a, n) == [i \in 1..n |-> IF i <= Len(a) THEN a[i] ELSE 0]

\* `x as uN` to a narrower type: the low limbs
Trunc(a, n) == [i \in 1..n |-> a[i]]

RECURSIVE BitOr(_, _)
BitOr(a, b) ==
    IF a = 0 THEN b
    ELSE IF b = 0 THEN a
    ELSE 2 * BitOr(a \div 2, b \div 2) + (IF a % 2 = 1 \/ b % 2 = 1 THEN 1 ELSE 0)

\* `major << 5` on a u8
Shl5(major) == (major * 32) % 256

\* BigEndian::write_u16 / write_u32 / write_u64 on a word of limbs
BEBytes(a) ==
    [k \in 1..(2 * Len(a)) |->
        LET limb == a[Len(a) - ((k - 1) \div 2)]
        IN  IF k % 2 = 1 THEN limb \div 256 ELSE limb % 256]

\* BigEndian::read_u16 / read_u32 / read_u64: the word of Len(b) \div 2 limbs
BERead(b) ==
    [i \in 1..(Len(b) \div 2) |->
        b[Len(b) - 2 * i + 1] * 256 + b[Len(b) - 2 * i + 2]]

u8_max == 255
u16_max == 65535
u32_max == <<u16_max, u16_max>>
u64_max == <<u16_max, u16_max, u16_max, u16_max>>

-----------------------------------------------------------------------------
(* encode.rs: the canonical width encoder                                  *)

write_null == <<246>>

write_u8(major, v) ==
    IF v <= 23
    THEN <<BitOr(Shl5(major), v)>>
    ELSE <<BitOr(Shl5(major), 24), v>>

\* mutant: the comparison with u8::MAX is strict
write_u16_strict(major, v) ==
    IF v < u8_max
    THEN write_u8(major, v % 256)
    ELSE <<BitOr(Shl5(major), 25), v \div 256, v % 256>>

write_u16(major, v) ==
    IF v <= u8_max
    THEN write_u8(major, v % 256)
    ELSE <<BitOr(Shl5(major), 25), v \div 256, v % 256>>

\* mutant: the comparison with u16::MAX is strict
write_u32_strict(major, v) ==
    IF LtU(v, ZeroExt(<<u16_max>>, 2))
    THEN write_u16(major, v[1])
    ELSE <<BitOr(Shl5(major), 26)>> \o BEBytes(v)

write_u32(major, v) ==
    IF LeU(v, ZeroExt(<<u16_max>>, 2))
    THEN write_u16(major, v[1])
    ELSE <<BitOr(Shl5(major), 26)>> \o BEBytes(v)

write_u64(major, v) ==
    IF LeU(v, ZeroExt(u32_max, 4))
    THEN write_u32(major, Trunc(v, 2))
    ELSE <<BitOr(Shl5(major), 27)>> \o BEBytes(v)

write_tag(tag) == write_u64(6, tag)

-----------------------------------------------------------------------------
(* IEEE-754 binary32 / binary64 values: sign bit s, biased exponent e,     *)
(* mantissa m as a sequence of bits, most significant first                *)

Zeros(n) == [i \in 1..n |-> 0]

BitsOf(x, w) == [i \in 1..w |-> (x \div (2 ^ (w - i))) % 2]

RECURSIVE NatOfBits(_)
NatOfBits(b) ==
    IF Len(b) = 0 THEN 0 ELSE 2 * NatOfBits(SubSeq(b, 1, Len(b) - 1)) + b[Len(b)]

\* the bits of a byte sequence, and back
UnpackBits(bytes) ==
    [i \in 1..(8 * Len(bytes)) |-> (bytes[((i - 1) \div 8) + 1] \div (2 ^ (7 - ((i - 1) % 8)))) % 2]

PackBits(b) == [k \in 1..(Len(b) \div 8) |-> NatOfBits(SubSeq(b, 8 * k - 7, 8 * k))]

\* b + 1 on a sequence of bits
IncBits(b) ==
    [i \in 1..Len(b) |-> IF \A j \in (i + 1)..Len(b) : b[j] = 1 THEN 1 - b[i] ELSE b[i]]

AllZero(b) == \A i \in 1..Len(b) : b[i] = 0

\* the all-ones exponent of a float with Len(m) mantissa bits
ExpMax(x) == IF Len(x.m) = 23 THEN 255 ELSE 2047

is_nan(x) == x.e = ExpMax(x) /\ ~AllZero(x.m)

is_infinite(x) == x.e = ExpMax(x) /\ AllZero(x.m)

is_finite(x) == x.e # ExpMax(x)

is_sign_positive(x) == x.s = 0

IsZeroF(x) == x.e = 0 /\ AllZero(x.m)

\* the == of f32 / f64
FloatEq(a, b) == /\ ~is_nan(a)
                 /\ ~is_nan(b)
                 /\ (a = b \/ (IsZeroF(a) /\ IsZeroF(b)))

\* `x as f32` for an f64 x: round to nearest, ties to even
F64AsF32(x) ==
    IF x.e = 2047
    THEN [s |-> x.s, e |-> 255,
          m |-> IF AllZero(x.m) THEN Zeros(23) ELSE <<1>> \o SubSeq(x.m, 2, 23)]
    ELSE IF x.e = 0 THEN [s |-> x.s, e |-> 0, m |-> Zeros(23)]
    ELSE IF x.e - 1023 > 127 THEN [s |-> x.s, e |-> 255, m |-> Zeros(23)]
    ELSE LET E      == x.e - 1023
             shift  == IF E >= -126 THEN 0 ELSE (-126) - E
             frac   == IF shift = 0 THEN x.m ELSE Zeros(shift - 1) \o <<1>> \o x.m
             ef     == IF shift = 0 THEN E + 127 ELSE 0
             keep   == SubSeq(frac, 1, 23)
             guard  == frac[24]
             sticky == \E i \in 25..Len(frac) : frac[i] = 1
             up     == guard = 1 /\ (sticky \/ keep[23] = 1)
             packed == BitsOf(ef, 8) \o keep
             r      == IF up THEN IncBits(packed) ELSE packed
         IN  [s |-> x.s, e |-> NatOfBits(SubSeq(r, 1, 8)), m |-> SubSeq(r, 9, 31)]

\* `y as f64` / f64::from(y) for an f32 y: exact
F32AsF64(y) ==
    IF y.e = 255 THEN [s |-> y.s, e |-> 2047, m |-> y.m \o Zeros(29)]
    ELSE IF y.e = 0
    THEN IF AllZero(y.m)
         THEN [s |-> y.s, e |-> 0, m |-> Zeros(52)]
         ELSE LET k == CHOOSE i \in 1..23 : y.m[i] = 1 /\ \A j \in 1..(i - 1) : y.m[j] = 0
              IN  [s |-> y.s, e |-> 897 - k, m |-> SubSeq(y.m, k + 1, 23) \o Zeros(29 + k)]
    ELSE [s |-> y.s, e |-> y.e + 896, m |-> y.m \o Zeros(29)]

\* BigEndian::write_f32 / write_f64
FloatBytes(x) ==
    PackBits(<<x.s>> \o BitsOf(x.e, IF Len(x.m) = 23 THEN 8 ELSE 11) \o x.m)

\* BigEndian::read_f32 (4 bytes) / read_f64 (8 bytes)
FloatOfBytes(bytes) ==
    LET b == UnpackBits(bytes)
        w == IF Len(bytes) = 4 THEN 8 ELSE 11
    IN  [s |-> b[1], e |-> NatOfBits(SubSeq(b, 2, w + 1)), m |-> SubSeq(b, w + 2, Len(b))]

-----------------------------------------------------------------------------
(* Content identifiers (the cid crate): version, codec, multihash code and *)
(* digest; every varint of the model is below 128, one byte                *)

\* Cid::to_bytes
CidToBytes(c) ==
    IF c.version = 0
    THEN <<c.code, Len(c.digest)>> \o c.digest
    ELSE <<c.version, c.codec, c.code, Len(c.digest)>> \o c.digest

\* Cid::try_from(&[u8])
CidTryFrom(b) ==
    IF Len(b) = 34 /\ b[1] = 18 /\ b[2] = 32
    THEN [err |-> "none",
          val |-> [version |-> 0, codec |-> 112, code |-> 18, digest |-> SubSeq(b, 3, 34)]]
    ELSE IF Len(b) < 4 \/ \E i \in 1..4 : b[i] >= 128 THEN [err |-> "Cid", val |-> <<>>]
    ELSE IF b[1] # 1 THEN [err |-> "Cid", val |-> <<>>]
    ELSE IF b[4] > 64 \/ Len(b) < 4 + b[4] THEN [err |-> "Cid", val |-> <<>>]
    ELSE [err |-> "none",
          val |-> [version |-> 1, codec |-> b[2], code |-> b[3],
                   digest |-> SubSeq(b, 5, 4 + b[4])]]

-----------------------------------------------------------------------------
(* The generic value (libipld_core::ipld::Ipld).  A Map is the sequence of *)
(* its entries in iteration order, ascending by key.                       *)

NoValue == [t |-> "none"]

Null == [t |-> "Null"]
Bool(b) == [t |-> "Bool", bool |-> b]
Integer(i) == [t |-> "Integer", int |-> i]
Float(f) == [t |-> "Float", float |-> f]
Bytes(b) == [t |-> "Bytes", bytes |-> b]
String(s) == [t |-> "String", str |-> s]
List(l) == [t |-> "List", list |-> l]
Map(m) == [t |-> "Map", map |-> m]
Link(c) == [t |-> "Link", cid |-> c]

\* Ord for String / [u8]: lexicographic on bytes
StrLt(a, b) ==
    \/ /\ Len(a) < Len(b)
       /\ \A i \in 1..Len(a) : a[i] = b[i]
    \/ \E i \in 1..Len(a) :
          /\ i <= Len(b)
          /\ a[i] < b[i]
          /\ \A j \in 1..(i - 1) : a[j] = b[j]

\* mutant: a new key goes to the end
BTreeInsert_append(m, k, v) ==
    IF \E i \in 1..Len(m) : m[i].k = k
    THEN [i \in 1..Len(m) |-> IF m[i].k = k THEN [k |-> k, v |-> v] ELSE m[i]]
    ELSE Append(m, [k |-> k, v |-> v])

\* mutant: the value of an equal key is kept
BTreeInsert_keep(m, k, v) ==
    IF \E i \in 1..Len(m) : m[i].k = k
    THEN m
    ELSE LET n == Cardinality({i \in 1..Len(m) : StrLt(m[i].k, k)})
         IN  SubSeq(m, 1, n) \o <<[k |-> k, v |-> v]>> \o SubSeq(m, n + 1, Len(m))

\* BTreeMap::insert on the entries in key order: replaces the value of an
\* equal key, otherwise puts the entry at its place in the order
BTreeInsert(m, k, v) ==
    IF \E i \in 1..Len(m) : m[i].k = k
    THEN [i \in 1..Len(m) |-> IF m[i].k = k THEN [k |-> k, v |-> v] ELSE m[i]]
    ELSE LET n == Cardinality({i \in 1..Len(m) : StrLt(m[i].k, k)})
         IN  SubSeq(m, 1, n) \o <<[k |-> k, v |-> v]>> \o SubSeq(m, n + 1, Len(m))

RECURSIVE IpldEq(_, _)
\* PartialEq for Ipld (derived): floats compare as f64
IpldEq(a, b) ==
    IF a.t # b.t THEN FALSE
    ELSE IF a.t = "Float" THEN FloatEq(a.float, b.float)
    ELSE IF a.t = "List"
    THEN /\ Len(a.list) = Len(b.list)
         /\ \A i \in 1..Len(a.list) : IpldEq(a.list[i], b.list[i])
    ELSE IF a.t = "Map"
    THEN /\ Len(a.map) = Len(b.map)
         /\ \A i \in 1..Len(a.map) :
               a.map[i].k = b.map[i].k /\ IpldEq(a.map[i].v, b.map[i].v)
    ELSE a = b

-----------------------------------------------------------------------------
(* encode.rs: the Encode impls.  An encode returns the bytes it wrote to   *)
(* the sink and its error ("none" for Ok); an error stops the encode and   *)
(* leaves in the sink what was written before it.                          *)

Wrote(bytes) == [out |-> bytes, err |-> "none"]

RECURSIVE Concat(_)
\* the concatenation of a sequence of byte sequences, by halves
Concat(ss) ==
    IF Len(ss) = 0 THEN <<>>
    ELSE IF Len(ss) = 1 THEN ss[1]
    ELSE Concat(SubSeq(ss, 1, Len(ss) \div 2)) \o Concat(SubSeq(ss, (Len(ss) \div 2) + 1, Len(ss)))

\* a loop of n encodes outs[1..n], each followed by `?`: the bytes of the
\* encodes up to the first that fails, and its error
Loop(outs) ==
    LET bad  == {i \in 1..Len(outs) : outs[i].err # "none"}
        stop == IF bad = {} THEN Len(outs) ELSE CHOOSE i \in bad : \A j \in bad : i <= j
    IN  [out |-> Concat([i \in 1..stop |-> outs[i].out]),
         err |-> IF bad = {} THEN "none" ELSE outs[stop].err]

\* `a?; b`: b runs after a succeeded
AndThen(a, b) == IF a.err # "none" THEN a ELSE [out |-> a.out \o b.out, err |-> b.err]

encode_bool(b) == Wrote(IF b THEN <<245>> ELSE <<244>>)

\* mutant: every f32 is written in the 4-byte form
encode_f32_full(x) == Wrote(<<250>> \o FloatBytes(x))

encode_f32(x) ==
    IF is_infinite(x)
    THEN IF is_sign_positive(x) THEN Wrote(<<249, 124, 0>>) ELSE Wrote(<<249, 252, 0>>)
    ELSE IF is_nan(x) THEN Wrote(<<249, 126, 0>>)
    ELSE Wrote(<<250>> \o FloatBytes(x))

\* mutant: every f64 is written as an f32
encode_f64_narrow(x) == encode_f32(F64AsF32(x))

encode_f64(x) ==
    IF ~is_finite(x) \/ FloatEq(F32AsF64(F64AsF32(x)), x)
    THEN encode_f32(F64AsF32(x))
    ELSE Wrote(<<251>> \o FloatBytes(x))

encode_bytes(b) == Wrote(write_u64(2, FromNat(Len(b), 4)) \o b)

encode_str(s) == Wrote(write_u64(3, FromNat(Len(s), 4)) \o s)

\* mutant: the comparisons with u64::MAX are not strict
encode_i128_ge(x) ==
    IF LtS(x, ZeroW(8))
    THEN IF ~LtS(NegW(AddW(x, FromNat(1, 8))), ZeroExt(u64_max, 8))
         THEN [out |-> <<>>, err |-> "NumberOutOfRange"]
         ELSE Wrote(write_u64(1, Trunc(NegW(AddW(x, FromNat(1, 8))), 4)))
    ELSE IF ~LtS(x, ZeroExt(u64_max, 8))
         THEN [out |-> <<>>, err |-> "NumberOutOfRange"]
         ELSE Wrote(write_u64(0, Trunc(x, 4)))

encode_i128(x) ==
    IF LtS(x, ZeroW(8))
    THEN IF LtS(ZeroExt(u64_max, 8), NegW(AddW(x, FromNat(1, 8))))
         THEN [out |-> <<>>, err |-> "NumberOutOfRange"]
         ELSE Wrote(write_u64(1, Trunc(NegW(AddW(x, FromNat(1, 8))), 4)))
    ELSE IF LtS(ZeroExt(u64_max, 8), x)
         THEN [out |-> <<>>, err |-> "NumberOutOfRange"]
         ELSE Wrote(write_u64(0, Trunc(x, 4)))

\* mutant: the length leaves out the zero byte
encode_cid_short(c) ==
    LET buf == CidToBytes(c)
        len == Len(buf)
    IN  Wrote(write_tag(FromNat(42, 4))
              \o write_u64(2, FromNat(len, 4))
              \o <<0>>
              \o SubSeq(buf, 1, len))

encode_cid(c) ==
    LET buf == CidToBytes(c)
        len == Len(buf)
    IN  Wrote(write_tag(FromNat(42, 4))
              \o write_u64(2, AddW(FromNat(len, 4), FromNat(1, 4)))
              \o <<0>>
              \o SubSeq(buf, 1, len))

RECURSIVE encode_ipld(_)
RECURSIVE encode_vec(_)
RECURSIVE encode_map(_)

\* Vec<T>::encode
encode_vec(l) ==
    AndThen(Wrote(write_u64(4, FromNat(Len(l), 4))),
            Loop([i \in 1..Len(l) |-> encode_ipld(l[i])]))

\* BTreeMap<K, T>::encode: the entries in iteration order
encode_map(m) ==
    AndThen(Wrote(write_u64(5, FromNat(Len(m), 4))),
            Loop([i \in 1..Len(m) |-> AndThen(encode_str(m[i].k), encode_ipld(m[i].v))]))

encode_ipld(v) ==
    CASE v.t = "Null" -> Wrote(write_null)
      [] v.t = "Bool" -> encode_bool(v.bool)
      [] v.t = "Integer" -> encode_i128(v.int)
      [] v.t = "Float" -> encode_f64(v.float)
      [] v.t = "Bytes" -> encode_bytes(v.bytes)
      [] v.t = "String" -> encode_str(v.str)
      [] v.t = "List" -> encode_vec(v.list)
      [] v.t = "Map" -> encode_map(v.map)
      [] v.t = "Link" -> encode_cid(v.cid)

-----------------------------------------------------------------------------
(* decode.rs.  A read takes the unread bytes r of the source and returns   *)
(* its error ("none" for Ok), its value and the bytes left unread.         *)
(* try_read_cbor also returns `some`: FALSE is Ok(None), the leading byte  *)
(* is not one of the type's.                                               *)

Fail(e) == [err |-> e, some |-> FALSE, val |-> NoValue, rest |-> <<>>]

Got(v, rest) == [err |-> "none", some |-> TRUE, val |-> v, rest |-> rest]

Declined(rest) == [err |-> "none", some |-> FALSE, val |-> NoValue, rest |-> rest]

\* `let v = x?; F(v)` on the bytes x left unread
Bind(x, F(_, _)) == IF x.err # "none" THEN Fail(x.err) ELSE F(x.val, x.rest)

\* Read::read_exact of n bytes
read_exact(r, n) ==
    IF Len(r) < n THEN Fail("Io") ELSE Got(SubSeq(r, 1, n), SubSeq(r, n + 1, Len(r)))

read_u8(r) == Bind(read_exact(r, 1), LAMBDA b, rest : Got(b[1], rest))

read_u16(r) == Bind(read_exact(r, 2), LAMBDA b, rest : Got(BERead(b)[1], rest))

read_u32(r) == Bind(read_exact(r, 4), LAMBDA b, rest : Got(BERead(b), rest))

read_u64(r) == Bind(read_exact(r, 8), LAMBDA b, rest : Got(BERead(b), rest))

read_f32(r) == Bind(read_exact(r, 4), LAMBDA b, rest : Got(FloatOfBytes(b), rest))

read_f64(r) == Bind(read_exact(r, 8), LAMBDA b, rest : Got(FloatOfBytes(b), rest))

usize_max == u64_max

\* mutant: a short read is taken as it comes (Read::read for read_exact),
\* the rest of the buffer vec![0; len] stays zero
read_bytes_zeroed(r, len) ==
    IF LtU(FromNat(Len(r), 4), len)
    THEN IF LtU(FromNat(1024, 4), len) THEN Fail("Io")
         ELSE Got(r \o [i \in 1..(ToNat(len) - Len(r)) |-> 0], <<>>)
    ELSE read_exact(r, ToNat(len))

\* read_bytes with len a usize (4 limbs); the buffer of len bytes is taken
\* to be allocated
read_bytes(r, len) ==
    IF LtU(FromNat(Len(r), 4), len) THEN Fail("Io") ELSE read_exact(r, ToNat(len))

\* the length of the UTF-8 sequence a byte leads, 0 for a byte that leads none
Utf8Width(x) ==
    IF x < 128 THEN 1
    ELSE IF x \in 194..223 THEN 2
    ELSE IF x \in 224..239 THEN 3
    ELSE IF x \in 240..244 THEN 4
    ELSE 0

\* the range of the byte that follows lead byte x
Utf8Second(x) ==
    CASE x = 224 -> 160..191
      [] x = 237 -> 128..159
      [] x = 240 -> 144..191
      [] x = 244 -> 128..143
      [] OTHER -> 128..191

\* std::str::from_utf8 succeeds: every byte that is no continuation byte
\* leads a well-formed sequence, and every continuation byte is in one
Utf8Valid(b) ==
    \A i \in 1..Len(b) :
        IF b[i] \in 128..191
        THEN \E j \in (i - 3)..(i - 1) :
                /\ j >= 1
                /\ Utf8Width(b[j]) > i - j
                /\ \A k \in (j + 1)..(i - 1) : b[k] \in 128..191
        ELSE /\ Utf8Width(b[i]) >= 1
             /\ i + Utf8Width(b[i]) - 1 <= Len(b)
             /\ (Utf8Width(b[i]) >= 2 => b[i + 1] \in Utf8Second(b[i]))
             /\ \A k \in (i + 2)..(i + Utf8Width(b[i]) - 1) : b[k] \in 128..191

read_str(r, len) ==
    Bind(read_bytes(r, len),
         LAMBDA bytes, rest : IF Utf8Valid(bytes) THEN Got(bytes, rest) ELSE Fail("Utf8"))

read_key(r, key) ==
    Bind(read_bytes(r, FromNat(Len(key) + 1, 4)),
         LAMBDA bytes, rest :
            IF key = SubSeq(bytes, 2, Len(bytes)) THEN Got(<<>>, rest)
            ELSE Fail("UnexpectedKey"))

\* mutant: the inline length codes 0x40..0x57 are accepted too
read_link_inline(r) ==
    Bind(read_u8(r), LAMBDA tag, r1 :
      IF tag # 42 THEN Fail("UnknownTag")
      ELSE Bind(read_u8(r1), LAMBDA ty, r2 :
        IF ty # 88 /\ ty \notin 64..87 THEN Fail("UnknownTag")
        ELSE Bind(IF ty = 88 THEN read_u8(r2) ELSE Got(ty - 64, r2), LAMBDA len, r3 :
          IF len = 0 THEN Fail("LengthOutOfRange")
          ELSE Bind(read_bytes(r3, FromNat(len, 4)), LAMBDA bytes, r4 :
            IF bytes[1] # 0 THEN Fail("InvalidCidPrefix")
            ELSE LET c == CidTryFrom(SubSeq(bytes, 2, Len(bytes)))
                 IN  IF c.err # "none" THEN Fail(c.err) ELSE Got(c.val, r4)))))

read_link(r) ==
    Bind(read_u8(r), LAMBDA tag, r1 :
      IF tag # 42 THEN Fail("UnknownTag")
      ELSE Bind(read_u8(r1), LAMBDA ty, r2 :
        IF ty # 88 THEN Fail("UnknownTag")
        ELSE Bind(read_u8(r2), LAMBDA len, r3 :
          IF len = 0 THEN Fail("LengthOutOfRange")
          ELSE Bind(read_bytes(r3, FromNat(len, 4)), LAMBDA bytes, r4 :
            IF bytes[1] # 0 THEN Fail("InvalidCidPrefix")
            ELSE LET c == CidTryFrom(SubSeq(bytes, 2, Len(bytes)))
                 IN  IF c.err # "none" THEN Fail(c.err) ELSE Got(c.val, r4)))))

\* the length of a string, list or map of major type mt (its first leading
\* byte is base == mt << 5), as a usize: the five width arms of the impls
read_len(r, major, base) ==
    CASE major \in base..(base + 23) -> Got(FromNat(major - base, 4), r)
      [] major = base + 24 -> Bind(read_u8(r), LAMBDA v, rest : Got(FromNat(v, 4), rest))
      [] major = base + 25 -> Bind(read_u16(r), LAMBDA v, rest : Got(FromNat(v, 4), rest))
      [] major = base + 26 -> Bind(read_u32(r), LAMBDA v, rest : Got(ZeroExt(v, 4), rest))
      [] major = base + 27 ->
             Bind(read_u64(r), LAMBDA v, rest :
                IF LtU(usize_max, v) THEN Fail("LengthOutOfRange") ELSE Got(v, rest))
      [] OTHER -> Declined(r)

\* TryReadCbor for String
try_read_cbor_String(r, major) ==
    LET len == read_len(r, major, 96)
    IN  IF len.err # "none" \/ ~len.some THEN len ELSE read_str(len.rest, len.val)

\* read::<String>
read_String(r) ==
    Bind(read_u8(r), LAMBDA major, rest :
        LET res == try_read_cbor_String(rest, major)
        IN  IF res.err = "none" /\ ~res.some THEN Fail("UnexpectedCode") ELSE res)

\* TryReadCbor for f32
try_read_cbor_f32(r, major) ==
    CASE major = 250 -> read_f32(r)
      [] OTHER -> Declined(r)

\* TryReadCbor for f64
try_read_cbor_f64(r, major) ==
    CASE major = 250 -> Bind(read_f32(r), LAMBDA f, rest : Got(F32AsF64(f), rest))
      [] major = 251 -> read_f64(r)
      [] OTHER -> Declined(r)

\* read::<T> for T one of f32, f64
read_typed(r, ty) ==
    Bind(read_u8(r), LAMBDA major, rest :
        LET res == CASE ty = "f32" -> try_read_cbor_f32(rest, major)
                     [] ty = "f64" -> try_read_cbor_f64(rest, major)
        IN  IF res.err = "none" /\ ~res.some THEN Fail("UnexpectedCode") ELSE res)

RECURSIVE read_ipld(_)
RECURSIVE try_read_cbor_ipld(_, _)
RECURSIVE read_list(_, _, _)
RECURSIVE read_map(_, _, _)

\* the rounds of a loop `for _ in 0..len` whose every round reads at least
\* one byte of r: a round after the last byte of r can only fail
Rounds(r, len) == IF LtU(FromNat(Len(r), 4), len) THEN Len(r) + 1 ELSE ToNat(len)

\* n rounds of the loop of read_list::<Ipld>, pushing onto list; the rounds
\* run in order, the first half before the second
read_list(r, n, list) ==
    IF n = 0 THEN Got(list, r)
    ELSE IF n = 1 THEN Bind(read_ipld(r), LAMBDA v, rest : Got(Append(list, v), rest))
    ELSE Bind(read_list(r, n \div 2, list), LAMBDA l1, r1 : read_list(r1, n - (n \div 2), l1))

\* n rounds of the loop of read_map::<Ipld>, inserting into map
read_map(r, n, map) ==
    IF n = 0 THEN Got(map, r)
    ELSE IF n = 1
    THEN Bind(read_String(r), LAMBDA key, r1 :
           Bind(read_ipld(r1), LAMBDA v, r2 : Got(BTreeInsert(map, key, v), r2)))
    ELSE Bind(read_map(r, n \div 2, map), LAMBDA m1, r1 : read_map(r1, n - (n \div 2), m1))

\* TryReadCbor for Ipld
try_read_cbor_ipld(r, major) ==
    CASE \* Major type 0: an unsigned integer
         major \in 0..23 -> Got(Integer(ZeroExt(<<major>>, 8)), r)
      [] major = 24 -> Bind(read_u8(r), LAMBDA v, rest : Got(Integer(ZeroExt(<<v>>, 8)), rest))
      [] major = 25 -> Bind(read_u16(r), LAMBDA v, rest : Got(Integer(ZeroExt(<<v>>, 8)), rest))
      [] major = 26 -> Bind(read_u32(r), LAMBDA v, rest : Got(Integer(ZeroExt(v, 8)), rest))
      [] major = 27 -> Bind(read_u64(r), LAMBDA v, rest : Got(Integer(ZeroExt(v, 8)), rest))
         \* Major type 1: a negative integer
      [] major \in 32..55 ->
             Got(Integer(SubW(OnesW(8), ZeroExt(<<major - 32>>, 8))), r)
      [] major = 56 ->
             Bind(read_u8(r), LAMBDA v, rest :
                Got(Integer(SubW(OnesW(8), ZeroExt(<<v>>, 8))), rest))
      [] major = 57 ->
             Bind(read_u16(r), LAMBDA v, rest :
                Got(Integer(SubW(OnesW(8), ZeroExt(<<v>>, 8))), rest))
      [] major = 58 ->
             Bind(read_u32(r), LAMBDA v, rest :
                Got(Integer(SubW(OnesW(8), ZeroExt(v, 8))), rest))
      [] major = 59 ->
             Bind(read_u64(r), LAMBDA v, rest :
                Got(Integer(SubW(OnesW(8), ZeroExt(v, 8))), rest))
         \* Major type 2: a byte string
      [] major \in 64..91 ->
             Bind(read_len(r, major, 64), LAMBDA len, r1 :
                Bind(read_bytes(r1, len), LAMBDA bytes, r2 : Got(Bytes(bytes), r2)))
         \* Major type 3: a text string
      [] major \in 96..123 ->
             Bind(read_len(r, major, 96), LAMBDA len, r1 :
                Bind(read_str(r1, len), LAMBDA string, r2 : Got(String(string), r2)))
         \* Major type 4: an array of data items
      [] major \in 128..155 ->
             Bind(read_len(r, major, 128), LAMBDA len, r1 :
                Bind(read_list(r1, Rounds(r1, len), <<>>), LAMBDA list, r2 : Got(List(list), r2)))
         \* Major type 5: a map of pairs of data items
      [] major \in 160..187 ->
             Bind(read_len(r, major, 160), LAMBDA len, r1 :
                Bind(read_map(r1, Rounds(r1, len), <<>>), LAMBDA map, r2 : Got(Map(map), r2)))
         \* Major type 6: optional semantic tagging of other major types
      [] major = 216 -> Bind(read_link(r), LAMBDA c, rest : Got(Link(c), rest))
         \* Major type 7: floating-point numbers and simple data types
      [] major = 244 -> Got(Bool(FALSE), r)
      [] major = 245 -> Got(Bool(TRUE), r)
      [] major = 246 -> Got(Null, r)
      [] major = 247 -> Got(Null, r)
      [] major = 250 -> Bind(read_f32(r), LAMBDA f, rest : Got(Float(F32AsF64(f)), rest))
      [] major = 251 -> Bind(read_f64(r), LAMBDA f, rest : Got(Float(f), rest))
      [] OTHER -> Declined(r)

\* read::<Ipld>, which is Decode for Ipld
read_ipld(r) ==
    Bind(read_u8(r), LAMBDA major, rest :
        LET res == try_read_cbor_ipld(rest, major)
        IN  IF res.err = "none" /\ ~res.some THEN Fail("UnexpectedCode") ELSE res)

-----------------------------------------------------------------------------
(* The type-directed decoders.  A type T is a record: [k |-> "u8"] for a   *)
(* scalar type, [k |-> "Vec", of |-> T] for a container.  u8 and u16 are   *)
(* naturals, i8 and i16 integers, u32 / i32 words of 2 limbs and u64 / i64 *)
(* words of 4 limbs (two's complement).                                    *)

\* `x as i8` of a u8, `x as i16` of a u8 or u16
AsI8(x) == IF x >= 128 THEN x - 256 ELSE x

AsI16(x) == IF x >= 32768 THEN x - 65536 ELSE x

\* TryReadCbor for bool
try_read_cbor_bool(r, major) ==
    CASE major = 244 -> Got(FALSE, r)
      [] major = 245 -> Got(TRUE, r)
      [] OTHER -> Declined(r)

\* TryReadCbor for u8
try_read_cbor_u8(r, major) ==
    CASE major \in 0..23 -> Got(major, r)
      [] major = 24 -> read_u8(r)
      [] OTHER -> Declined(r)

\* mutant: the 4-byte form is read too, and then declined
try_read_cbor_u16_greedy(r, major) ==
    CASE major \in 0..23 -> Got(major, r)
      [] major = 24 -> read_u8(r)
      [] major = 25 -> read_u16(r)
      [] major = 26 -> Bind(read_u16(r), LAMBDA v, rest : Declined(rest))
      [] OTHER -> Declined(r)

\* TryReadCbor for u16
try_read_cbor_u16(r, major) ==
    CASE major \in 0..23 -> Got(major, r)
      [] major = 24 -> read_u8(r)
      [] major = 25 -> read_u16(r)
      [] OTHER -> Declined(r)

\* TryReadCbor for u32
try_read_cbor_u32(r, major) ==
    CASE major \in 0..23 -> Got(FromNat(major, 2), r)
      [] major = 24 -> Bind(read_u8(r), LAMBDA v, rest : Got(FromNat(v, 2), rest))
      [] major = 25 -> Bind(read_u16(r), LAMBDA v, rest : Got(FromNat(v, 2), rest))
      [] major = 26 -> read_u32(r)
      [] OTHER -> Declined(r)

\* TryReadCbor for u64
try_read_cbor_u64(r, major) ==
    CASE major \in 0..23 -> Got(FromNat(major, 4), r)
      [] major = 24 -> Bind(read_u8(r), LAMBDA v, rest : Got(FromNat(v, 4), rest))
      [] major = 25 -> Bind(read_u16(r), LAMBDA v, rest : Got(FromNat(v, 4), rest))
      [] major = 26 -> Bind(read_u32(r), LAMBDA v, rest : Got(ZeroExt(v, 4), rest))
      [] major = 27 -> read_u64(r)
      [] OTHER -> Declined(r)

\* TryReadCbor for i8: -1 - read_u8(r)? as i8
try_read_cbor_i8(r, major) ==
    CASE major \in 32..55 -> Got(-1 - AsI8(major - 32), r)
      [] major = 56 -> Bind(read_u8(r), LAMBDA v, rest : Got(-1 - AsI8(v), rest))
      [] OTHER -> Declined(r)

\* TryReadCbor for i16
try_read_cbor_i16(r, major) ==
    CASE major \in 32..55 -> Got(-1 - AsI16(major - 32), r)
      [] major = 56 -> Bind(read_u8(r), LAMBDA v, rest : Got(-1 - AsI16(v), rest))
      [] major = 57 -> Bind(read_u16(r), LAMBDA v, rest : Got(-1 - AsI16(v), rest))
      [] OTHER -> Declined(r)

\* TryReadCbor for i32; `as i32` of a u32 keeps the bits
try_read_cbor_i32(r, major) ==
    CASE major \in 32..55 -> Got(SubW(OnesW(2), FromNat(major - 32, 2)), r)
      [] major = 56 ->
             Bind(read_u8(r), LAMBDA v, rest : Got(SubW(OnesW(2), FromNat(v, 2)), rest))
      [] major = 57 ->
             Bind(read_u16(r), LAMBDA v, rest : Got(SubW(OnesW(2), FromNat(v, 2)), rest))
      [] major = 58 -> Bind(read_u32(r), LAMBDA v, rest : Got(SubW(OnesW(2), v), rest))
      [] OTHER -> Declined(r)

\* TryReadCbor for i64; `as i64` of a u64 keeps the bits
try_read_cbor_i64(r, major) ==
    CASE major \in 32..55 -> Got(SubW(OnesW(4), FromNat(major - 32, 4)), r)
      [] major = 56 ->
             Bind(read_u8(r), LAMBDA v, rest : Got(SubW(OnesW(4), FromNat(v, 4)), rest))
      [] major = 57 ->
             Bind(read_u16(r), LAMBDA v, rest : Got(SubW(OnesW(4), FromNat(v, 4)), rest))
      [] major = 58 ->
             Bind(read_u32(r), LAMBDA v, rest : Got(SubW(OnesW(4), ZeroExt(v, 4)), rest))
      [] major = 59 -> Bind(read_u64(r), LAMBDA v, rest : Got(SubW(OnesW(4), v), rest))
      [] OTHER -> Declined(r)

\* TryReadCbor for Cid
try_read_cbor_Cid(r, major) ==
    CASE major = 216 -> read_link(r)
      [] OTHER -> Declined(r)

\* TryReadCbor for Box<[u8]>
try_read_cbor_bytes(r, major) ==
    LET len == read_len(r, major, 64)
    IN  IF len.err # "none" \/ ~len.some THEN len ELSE read_bytes(len.rest, len.val)

RECURSIVE try_read_cbor(_, _, _)
RECURSIVE read_list_of(_, _, _, _)
RECURSIVE read_map_of(_, _, _, _)

\* read::<T>
read(r, T) ==
    Bind(read_u8(r), LAMBDA major, rest :
        LET res == try_read_cbor(rest, major, T)
        IN  IF res.err = "none" /\ ~res.some THEN Fail("UnexpectedCode") ELSE res)

\* n rounds of the loop of read_list::<T>
read_list_of(r, n, list, T) ==
    IF n = 0 THEN Got(list, r)
    ELSE IF n = 1 THEN Bind(read(r, T), LAMBDA v, rest : Got(Append(list, v), rest))
    ELSE Bind(read_list_of(r, n \div 2, list, T),
              LAMBDA l1, r1 : read_list_of(r1, n - (n \div 2), l1, T))

\* n rounds of the loop of read_map::<T>
read_map_of(r, n, map, T) ==
    IF n = 0 THEN Got(map, r)
    ELSE IF n = 1
    THEN Bind(read_String(r), LAMBDA key, r1 :
           Bind(read(r1, T), LAMBDA v, r2 : Got(BTreeInsert(map, key, v), r2)))
    ELSE Bind(read_map_of(r, n \div 2, map, T),
              LAMBDA m1, r1 : read_map_of(r1, n - (n \div 2), m1, T))

\* TryReadCbor for Option<T>; None is <<>>, Some(v) is <<v>>
try_read_cbor_Option(r, major, T) ==
    CASE major = 246 -> Got(<<>>, r)
      [] major = 247 -> Got(<<>>, r)
      [] OTHER ->
             LET res == try_read_cbor(r, major, T)
             IN  IF res.err # "none" THEN res
                 ELSE IF res.some THEN Got(<<res.val>>, res.rest)
                 ELSE Declined(res.rest)

\* TryReadCbor for Vec<T>
try_read_cbor_Vec(r, major, T) ==
    LET len == read_len(r, major, 128)
    IN  IF len.err # "none" \/ ~len.some THEN len
        ELSE read_list_of(len.rest, Rounds(len.rest, len.val), <<>>, T)

\* TryReadCbor for BTreeMap<String, T>
try_read_cbor_BTreeMap(r, major, T) ==
    LET len == read_len(r, major, 160)
    IN  IF len.err # "none" \/ ~len.some THEN len
        ELSE read_map_of(len.rest, Rounds(len.rest, len.val), <<>>, T)

\* T::try_read_cbor(r, major)
try_read_cbor(r, major, T) ==
    CASE T.k = "bool" -> try_read_cbor_bool(r, major)
      [] T.k = "u8" -> try_read_cbor_u8(r, major)
      [] T.k = "u16" -> try_read_cbor_u16(r, major)
      [] T.k = "u32" -> try_read_cbor_u32(r, major)
      [] T.k = "u64" -> try_read_cbor_u64(r, major)
      [] T.k = "i8" -> try_read_cbor_i8(r, major)
      [] T.k = "i16" -> try_read_cbor_i16(r, major)
      [] T.k = "i32" -> try_read_cbor_i32(r, major)
      [] T.k = "i64" -> try_read_cbor_i64(r, major)
      [] T.k = "f32" -> try_read_cbor_f32(r, major)
      [] T.k = "f64" -> try_read_cbor_f64(r, major)
      [] T.k = "String" -> try_read_cbor_String(r, major)
      [] T.k = "bytes" -> try_read_cbor_bytes(r, major)
      [] T.k = "Cid" -> try_read_cbor_Cid(r, major)
      [] T.k = "Option" -> try_read_cbor_Option(r, major, T.of)
      [] T.k = "Vec" -> try_read_cbor_Vec(r, major, T.of)
      [] T.k = "BTreeMap" -> try_read_cbor_BTreeMap(r, major, T.of)

-----------------------------------------------------------------------------
(* Encode for i8, i16, i32, i64: write_uN(w, 1, -(self + 1) as uN).  The   *)
(* sum and the negation are signed arithmetic of the type: where one       *)
(* overflows, a build with overflow checks panics and a build without      *)
(* them wraps, so an encoder returns the set of its possible outcomes.     *)

Panicked == [out |-> <<>>, err |-> "panic"]

\* the outcomes of arithmetic that overflowed or not
Outcomes(overflowed, bytes) ==
    IF overflowed THEN {Panicked, Wrote(bytes)} ELSE {Wrote(bytes)}

\* Encode for i8
encode_i8(n) ==
    LET sum == AsI8((n + 1) % 256)
        neg == AsI8((0 - sum) % 256)
    IN  Outcomes(n = 127 \/ sum = -128, write_u8(1, neg % 256))

\* Encode for i16
encode_i16(n) ==
    LET sum == AsI16((n + 1) % 65536)
        neg == AsI16((0 - sum) % 65536)
    IN  Outcomes(n = 32767 \/ sum = -32768, write_u16(1, neg % 65536))

\* a signed word as a word of n limbs
SignExt(a, n) ==
    [i \in 1..n |-> IF i <= Len(a) THEN a[i] ELSE IF IsNegW(a) THEN 65535 ELSE 0]

\* the greatest and the least value of a signed word of n limbs
MaxW(n) == [i \in 1..n |-> IF i = n THEN 32767 ELSE 65535]

MinW(n) == [i \in 1..n |-> IF i = n THEN 32768 ELSE 0]

\* Encode for i32
encode_i32(x) ==
    LET sum == AddW(x, FromNat(1, 2))
    IN  Outcomes(x = MaxW(2) \/ sum = MinW(2), write_u32(1, NegW(sum)))

\* Encode for i64
encode_i64(x) ==
    LET sum == AddW(x, FromNat(1, 4))
    IN  Outcomes(x = MaxW(4) \/ sum = MinW(4), write_u64(1, NegW(sum)))

\* T::encode for the signed types
encode_signed(T, n) ==
    CASE T.k = "i8" -> encode_i8(n)
      [] T.k = "i16" -> encode_i16(n)
      [] T.k = "i32" -> encode_i32(n)
      [] T.k = "i64" -> encode_i64(n)

-----------------------------------------------------------------------------
(* Another producer of CBOR: it writes every magnitude and length in width *)
(* form f (0 inline, 1..4 for 1, 2, 4, 8 bytes) or, when that cannot hold  *)
(* it, in the smallest form that can; form 0 is the canonical encoding.    *)
(* This is the environment of the decoder, not code of the repository.     *)

MinForm(x) ==
    IF x[2] = 0 /\ x[3] = 0 /\ x[4] = 0
    THEN IF x[1] <= 23 THEN 0 ELSE IF x[1] <= 255 THEN 1 ELSE 2
    ELSE IF x[3] = 0 /\ x[4] = 0 THEN 3 ELSE 4

foreign_width(major, x, f) ==
    LET use == IF f > MinForm(x) THEN f ELSE MinForm(x)
    IN  CASE use = 0 -> <<major * 32 + x[1]>>
          [] use = 1 -> <<major * 32 + 24, x[1]>>
          [] use = 2 -> <<major * 32 + 25, x[1] \div 256, x[1] % 256>>
          [] use = 3 -> <<major * 32 + 26>> \o BEBytes(Trunc(x, 2))
          [] use = 4 -> <<major * 32 + 27>> \o BEBytes(x)

RECURSIVE foreign(_, _)
foreign(v, f) ==
    CASE v.t = "Null" -> <<246>>
      [] v.t = "Bool" -> IF v.bool THEN <<245>> ELSE <<244>>
      [] v.t = "Integer" ->
             IF IsNegW(v.int) THEN foreign_width(1, Trunc(NotW(v.int), 4), f)
             ELSE foreign_width(0, Trunc(v.int, 4), f)
      [] v.t = "Bytes" -> foreign_width(2, FromNat(Len(v.bytes), 4), f) \o v.bytes
      [] v.t = "String" -> foreign_width(3, FromNat(Len(v.str), 4), f) \o v.str
      [] v.t = "List" ->
             foreign_width(4, FromNat(Len(v.list), 4), f)
             \o Concat([i \in 1..Len(v.list) |-> foreign(v.list[i], f)])
      [] v.t = "Map" ->
             foreign_width(5, FromNat(Len(v.map), 4), f)
             \o Concat([i \in 1..Len(v.map) |->
                          foreign(String(v.map[i].k), f) \o foreign(v.map[i].v, f)])

\* a wire map of the pairs ps, in the order given, duplicates included
foreign_map(ps) ==
    foreign_width(5, FromNat(Len(ps), 4), 0)
    \o Concat([i \in 1..Len(ps) |-> foreign(String(ps[i].k), 0) \o foreign(ps[i].v, 0)])

-----------------------------------------------------------------------------
(* Inputs                                                                  *)

\* bounds of the model
MaxLen == 2
MaxOps == 4

\* u64 magnitudes around the width thresholds 24, 2^8, 2^16, 2^32
U64Samples ==
    { <<a, b, c, d>> : a \in {0, 1, 23, 24, 255, 256, 65535},
                       b \in {0, 1, 65535}, c \in {0, 1, 65535}, d \in {0, 1, 65535} }

Majors == 0..7

Forms == 0..4

\* a small integer as an i128
I128(x) == IF x >= 0 THEN FromNat(x, 8) ELSE NegW(FromNat(-x, 8))

\* i128 values: the low 64 bits around the width thresholds of both signs,
\* the high 64 bits zero, all ones (in range) or neither (out of range)
LowLimb == {0, 23, 24, 255, 256, 65535, 65512, 65511, 65280, 65279}
MidLimb == {0, 65535}
HighHalves ==
    { ZeroW(4), OnesW(4), <<1, 0, 0, 0>>, <<65534, 65535, 65535, 65535>>,
      <<65535, 65535, 65535, 32767>>, <<0, 0, 0, 32768>> }

I128Samples ==
    { <<a, b, c, d>> \o h : a \in LowLimb, b \in MidLimb, c \in MidLimb,
                            d \in {0, 1, 65535}, h \in HighHalves }

\* f64 values: exponents around the binary32 range, mantissas around the
\* 23-bit cut
BitsAt(S, w) == [i \in 1..w |-> IF i \in S THEN 1 ELSE 0]
F64Exps == {0, 1, 873, 874, 896, 897, 1022, 1023, 1024, 1150, 1151, 2046, 2047}
F64Mants == { BitsAt(S, 52) : S \in {{}, {1}, {23}, {24}, {23, 24}, {52}, {24, 52}, 1..23, 1..24, 1..52} }
F64Samples == [s : {0, 1}, e : F64Exps, m : F64Mants]

F32Samples ==
    [s : {0, 1}, e : {0, 1, 127, 254, 255}, m : { BitsAt(S, 23) : S \in {{}, {1}, {23}, 1..23} }]

\* byte and text strings: lengths around the width thresholds
Fill(n, x) == [i \in 1..n |-> x]
StrLens == {0, 1, 23, 24, 255, 256}
StrSamples == { Fill(n, 97) : n \in StrLens } \cup { <<195, 169>>, <<104, 101, 108, 108, 111>> }
BytesSamples == { [i \in 1..n |-> (i * 37) % 256] : n \in StrLens } \cup { <<0, 1, 2, 3>>, <<255, 254>> }

\* content identifiers of 1 to 68 bytes; multihash digests hold at most 64
\* bytes
Digest(n) == [i \in 1..n |-> (i * 11) % 256]
CidSamples ==
    { [version |-> 1, codec |-> c, code |-> h, digest |-> Digest(n)] :
         c \in {0, 113}, h \in {0, 30}, n \in {0, 2, 18, 19, 20, 32, 64} }
    \cup { [version |-> 0, codec |-> 112, code |-> 18, digest |-> Digest(32)] }

Scalars ==
    {Null, Bool(TRUE), Bool(FALSE)}
    \cup { Integer(i) : i \in I128Samples }
    \cup { Float(f) : f \in F64Samples }
    \cup { Bytes(b) : b \in BytesSamples }
    \cup { String(x) : x \in StrSamples }
    \cup { Link(c) : c \in CidSamples }

CidOfTest == [version |-> 1, codec |-> 0, code |-> 30, digest |-> Digest(32)]
CidShort == [version |-> 1, codec |-> 85, code |-> 0, digest |-> Digest(2)]
FZero == [s |-> 0, e |-> 0, m |-> Zeros(52)]
FInf == [s |-> 0, e |-> 2047, m |-> Zeros(52)]

\* the children of the containers of the model
Leaves ==
    { Null, Bool(TRUE), Integer(I128(1)), Integer(I128(-25)), Float(FZero),
      String(<<98>>), Link(CidOfTest) }

Keys == { <<97>>, <<98>>, <<97, 98>>, <<>> }

RECURSIVE SortedEntries(_)
\* the entries of a BTreeMap holding the function f, in iteration order
SortedEntries(f) ==
    IF DOMAIN f = {} THEN <<>>
    ELSE LET k == CHOOSE x \in DOMAIN f : \A y \in DOMAIN f : y = x \/ StrLt(x, y)
         IN  <<[k |-> k, v |-> f[k]]>> \o SortedEntries([y \in (DOMAIN f) \ {k} |-> f[y]])

SeqsUpTo(S, n) == UNION { [1..k -> S] : k \in 0..n }

MapLeaves == { Null, Integer(I128(1)), String(<<98>>) }

FlatLists == { List(l) : l \in SeqsUpTo(Leaves, MaxLen) }

FlatMaps == { Map(SortedEntries(f)) : f \in UNION { [K -> MapLeaves] : K \in SUBSET Keys } }

Inner ==
    { List(<<>>), List(<<Null, Integer(I128(24))>>), Map(<<>>),
      Map(<<[k |-> <<97>>, v |-> Integer(I128(-1))]>>) }

\* the value of test_encode_decode_cbor in lib.rs
TestValue ==
    Map(SortedEntries(
        [k \in { <<110, 117, 109, 98, 101, 114>>, <<108, 105, 115, 116>>,
                 <<98, 121, 116, 101, 115>>, <<109, 97, 112>>, <<108, 105, 110, 107>> } |->
           CASE k = <<110, 117, 109, 98, 101, 114>> -> Integer(I128(1))
             [] k = <<108, 105, 115, 116>> -> List(<<Bool(TRUE), Null, Bool(FALSE)>>)
             [] k = <<98, 121, 116, 101, 115>> -> Bytes(<<0, 1, 2, 3>>)
             [] k = <<109, 97, 112>> ->
                    Map(SortedEntries(
                        [j \in { <<102, 108, 111, 97, 116>>, <<115, 116, 114, 105, 110, 103>> } |->
                           IF j = <<102, 108, 111, 97, 116>> THEN Float(FZero)
                           ELSE String(<<104, 101, 108, 108, 111>>)]))
             [] k = <<108, 105, 110, 107>> -> Link(CidOfTest)]))

Nested ==
    { List(l) : l \in SeqsUpTo(Inner, MaxLen) }
    \cup { Map(SortedEntries(f)) : f \in UNION { [K -> Inner] : K \in SUBSET {<<97>>, <<98>>} } }
    \cup { TestValue,
           List(<<List(<<List(<<Map(<<>>)>>)>>)>>),
           List(Fill(24, Null)), List(Fill(256, Integer(I128(-1)))),
           Map([i \in 1..24 |-> [k |-> <<96 + i>>, v |-> Null]]),
           List(<<Integer(I128(1)), Integer(<<0, 0, 0, 0, 1, 0, 0, 0>>), Null>>),
           List(<<Float(FInf)>>), List(<<Link(CidShort)>>),
           Map(<<[k |-> <<97>>, v |-> Link(CidShort)]>>) }

Values == Scalars \cup FlatLists \cup FlatMaps \cup Nested

\* the pairs of a wire map, in any order, keys repeated or not
MaxPairs == 3
WirePairs == SeqsUpTo([k : {<<97>>, <<98>>, <<97, 98>>}, v : {Null, Integer(I128(1))}], MaxPairs)

\* the bytes after the tag byte 0xd8 of a link
LinkContents ==
    { <<>>, <<0, 9, 9>> }
    \cup { <<x>> \o CidToBytes(c) :
             x \in {0, 1, 255},
             c \in { CidOfTest, CidShort,
                     [version |-> 1, codec |-> 113, code |-> 0, digest |-> Digest(19)] } }

LinkBody == Tail(encode_cid(CidOfTest).out)

LinkWires ==
    { <<tag>> \o foreign_width(2, FromNat(Len(c), 4), f) \o c :
         tag \in {42, 41, 0, 24}, f \in Forms, c \in LinkContents }
    \cup { Tail(encode_cid(c).out) : c \in CidSamples }
    \cup { SubSeq(LinkBody, 1, n) : n \in {0, 1, 2, 3, 4, 20} }

\* items that lead with a byte of major type 6
TagTails ==
    { <<>>, <<0>>, LinkBody, <<41>> \o Tail(LinkBody), <<0>> \o LinkBody,
      <<0, 0, 0>> \o LinkBody, <<97>>, <<42>>, <<42, 88>> }

TagWires == { <<lead>> \o t : lead \in 192..223, t \in TagTails }

\* values of the kinds whose magnitude or length has a width form, with
\* simple children
RECURSIVE HasForm(_)
HasForm(v) ==
    CASE v.t \in {"Null", "Bool", "Bytes", "String"} -> TRUE
      [] v.t = "Integer" -> \/ \A i \in 5..8 : v.int[i] = 0
                            \/ \A i \in 5..8 : v.int[i] = 65535
      [] v.t = "List" -> \A i \in 1..Len(v.list) : HasForm(v.list[i])
      [] v.t = "Map" -> \A i \in 1..Len(v.map) : HasForm(v.map[i].v)
      [] OTHER -> FALSE

FormMagnitudes ==
    { <<0, 0, 0, 0>>, <<23, 0, 0, 0>>, <<24, 0, 0, 0>>, <<255, 0, 0, 0>>, <<256, 0, 0, 0>>,
      <<65535, 0, 0, 0>>, <<0, 1, 0, 0>>, <<65535, 65535, 0, 0>>, <<0, 0, 1, 0>>,
      <<65535, 65535, 65535, 65535>> }

FormValues ==
    { Integer(ZeroExt(x, 8)) : x \in FormMagnitudes }
    \cup { Integer(NotW(ZeroExt(x, 8))) : x \in FormMagnitudes }
    \cup { v \in Values : v.t # "Integer" /\ HasForm(v) }

\* the types whose decoders the session calls
Ty(k) == [k |-> k]
Option(T) == [k |-> "Option", of |-> T]
Vec(T) == [k |-> "Vec", of |-> T]
BTreeMapOf(T) == [k |-> "BTreeMap", of |-> T]

ScalarTypes ==
    { Ty(k) : k \in {"bool", "u8", "u16", "u32", "u64", "i8", "i16", "i32", "i64",
                     "f32", "f64", "String", "bytes", "Cid"} }

Types ==
    ScalarTypes
    \cup { Option(Ty("u8")), Option(Ty("String")), Option(Option(Ty("i8"))),
           Vec(Ty("u8")), Vec(Option(Ty("bool"))), BTreeMapOf(Ty("u8")),
           Option(Vec(Ty("u8"))) }

\* what follows a leading byte: nothing, and nine bytes 0xff
LeadTails == { <<>>, Fill(9, 255) }

\* every leading byte, alone and followed by nine bytes
LeadWires == { <<b>> \o t : b \in 0..255, t \in LeadTails }

\* leading bytes of every kind with the magnitudes 2^(w-1) - 1 and 2^(w-1) in
\* each width, and with a short string
TypedWires ==
    LeadWires
    \cup { <<b>> \o t :
             b \in (24..27) \cup (56..59) \cup {65, 88, 97, 120, 129, 152, 161, 184, 216,
                                               244, 246, 250, 251},
             t \in { <<128, 0, 0, 0, 0, 0, 0, 0, 7>>,
                     <<127, 255, 255, 255, 255, 255, 255, 255, 7>>,
                     <<0, 0, 0, 0, 0, 0, 0, 0, 7>>,
                     <<1, 97, 24, 1>>, <<97, 97, 1, 2>> } }

\* values whose items are cut short: every kind, every width, nested
CutValues ==
    { TestValue, Link(CidOfTest), Null, Bool(TRUE),
      Float(FZero), Float([s |-> 0, e |-> 1023, m |-> BitsAt({52}, 52)]),
      Bytes(Fill(24, 7)), String(Fill(23, 97)), String(<<195, 169>>), String(Fill(256, 97)),
      List(<<List(<<List(<<Map(<<>>)>>)>>)>>),
      List(<<String(<<97>>), List(<<Integer(I128(-25)), Bytes(<<1, 2>>)>>)>>),
      Map(<<[k |-> <<97>>, v |-> List(<<String(<<98, 99>>)>>)],
            [k |-> <<98>>, v |-> Map(<<[k |-> <<99>>, v |-> Integer(I128(256))]>>)]>>),
      List(Fill(24, Null)) }
    \cup { Integer(ZeroExt(x, 8)) : x \in FormMagnitudes }
    \cup { Integer(NotW(ZeroExt(x, 8))) : x \in FormMagnitudes }

\* their items, as the encoder writes them and in the 8-byte width form
CutItems ==
    { encode_ipld(v).out : v \in CutValues }
    \cup { foreign(v, 4) : v \in { x \in CutValues : HasForm(x) } }

\* the keys a fixed-schema decoder expects, of 0 to 25 bytes
KeySamples ==
    { <<>>, <<97>>, <<97, 98>>, Fill(23, 97), Fill(24, 97), Fill(24, 24), Fill(25, 98) }

\* key with its last byte changed
OtherKey(key) == [i \in 1..Len(key) |-> IF i = Len(key) THEN 120 ELSE key[i]]

\* what the reader may hold when key is expected: the key as a text string,
\* as a byte string, behind other leading bytes, in the 1-byte length form,
\* another text of the same length, a shorter one; each alone and followed
\* by two more bytes
KeySources(key) ==
    { b \o t :
        b \in { encode_str(key).out,
                encode_bytes(key).out,
                <<0>> \o key,
                <<255>> \o key,
                <<120, Len(key)>> \o key,
                encode_str(OtherKey(key)).out,
                encode_str(SubSeq(key, 1, Len(key) - 1)).out,
                <<>> },
        t \in { <<>>, <<1, 2>> } }

\* values of the signed types: zero, both signs, the width thresholds, the
\* greatest and the least
SignedSamples(T) ==
    CASE T.k = "i8" -> {-128, -127, -25, -24, -1, 0, 1, 23, 24, 126, 127}
      [] T.k = "i16" -> {-32768, -257, -256, -25, -1, 0, 1, 24, 255, 256, 32766, 32767}
      [] T.k = "i32" ->
             { FromNat(x, 2) : x \in {0, 1, 23, 24, 255, 256, 65535, 65536} }
             \cup { NotW(FromNat(x, 2)) : x \in {0, 23, 24, 255, 256, 65535, 65536} }
             \cup { MaxW(2), MinW(2), <<65534, 32767>>, <<1, 32768>> }
      [] T.k = "i64" ->
             { FromNat(x, 4) : x \in {0, 1, 23, 24, 255, 256, 65535, 65536} }
             \cup { NotW(FromNat(x, 4)) : x \in {0, 23, 24, 255, 256, 65535, 65536} }
             \cup { <<0, 0, 1, 0>>, <<65535, 65535, 65534, 65535>>,
                    MaxW(4), MinW(4), <<65534, 65535, 65535, 32767>>, <<1, 0, 0, 32768>> }

-----------------------------------------------------------------------------
(* The session                                                             *)

Init ==
    /\ call = [op |-> "init"]
    /\ value = NoValue
    /\ wire = <<>>
    /\ err = "none"
    /\ unread = <<>>
    /\ log = <<>>

Snapshot == [call |-> call, value |-> value, wire |-> wire, err |-> err]

\* a direct call of write_u64 on an empty sink
WriteU64 ==
    /\ call.op = "init"
    /\ \E m \in Majors, x \in U64Samples :
        /\ call' = [op |-> "write_u64", major |-> m, mag |-> x]
        /\ wire' = write_u64(m, x)
    /\ value' = NoValue
    /\ err' = "none"
    /\ UNCHANGED <<unread, log>>

\* a direct call of Encode for f32 on an empty sink
EncodeF32 ==
    /\ call.op = "init"
    /\ \E x \in F32Samples :
        /\ call' = [op |-> "encode_f32", x |-> x]
        /\ wire' = encode_f32(x).out
        /\ err' = encode_f32(x).err
    /\ value' = NoValue
    /\ UNCHANGED <<unread, log>>

\* the caller builds a value
Supply ==
    /\ call.op = "init"
    /\ \E v \in Values : value' = v
    /\ call' = [op |-> "value"]
    /\ UNCHANGED <<wire, err, unread, log>>

\* bytes of another producer arrive: a value written in width form f
ReceiveForm ==
    /\ call.op = "init"
    /\ \E v \in FormValues, f \in Forms :
        /\ call' = [op |-> "wire", of |-> v, form |-> f]
        /\ wire' = foreign(v, f)
    /\ UNCHANGED <<value, err, unread, log>>

\* bytes of another producer arrive: a map of pairs in any order
ReceiveMap ==
    /\ call.op = "init"
    /\ \E ps \in WirePairs :
        /\ call' = [op |-> "wiremap", pairs |-> ps]
        /\ wire' = foreign_map(ps)
    /\ UNCHANGED <<value, err, unread, log>>

\* bytes of another producer arrive: an item of major type 6
ReceiveTag ==
    /\ call.op = "init"
    /\ \E b \in TagWires : wire' = b
    /\ call' = [op |-> "wiretag"]
    /\ UNCHANGED <<value, err, unread, log>>

\* Encode for Ipld into a fresh sink (Codec::encode)
Encode ==
    /\ call.op \in {"value", "decode"}
    /\ err = "none"
    /\ Len(log) < MaxOps
    /\ LET res == encode_ipld(value)
       IN  /\ wire' = res.out
           /\ err' = res.err
    /\ call' = [op |-> "encode"]
    /\ log' = Append(log, Snapshot)
    /\ UNCHANGED <<value, unread>>

\* Decode for Ipld from the buffer (Codec::decode)
Decode ==
    /\ call.op \in {"wire", "wiremap", "wiretag", "wirelead", "cut", "encode", "encode_f32"}
    /\ err = "none"
    /\ Len(log) < MaxOps
    /\ LET res == read_ipld(wire)
       IN  /\ value' = res.val
           /\ err' = res.err
           /\ unread' = res.rest
    /\ call' = [op |-> "decode"]
    /\ log' = Append(log, Snapshot)
    /\ UNCHANGED wire

\* Decode for f32 or f64 from the buffer
DecodeFloat ==
    /\ call.op \in {"encode", "encode_f32"}
    /\ err = "none"
    /\ Len(log) < MaxOps
    /\ \E ty \in {"f32", "f64"} :
        LET res == read_typed(wire, ty)
        IN  /\ value' = IF res.err = "none" THEN [t |-> ty, float |-> res.val] ELSE NoValue
            /\ err' = res.err
            /\ unread' = res.rest
            /\ call' = [op |-> "decode_as", ty |-> ty]
    /\ log' = Append(log, Snapshot)
    /\ UNCHANGED wire

\* a direct call of read_link on the bytes that follow a tag byte 0xd8
ReadLink ==
    /\ call.op = "init"
    /\ \E b \in LinkWires :
        LET res == read_link(b)
        IN  /\ wire' = b
            /\ value' = IF res.err = "none" THEN Link(res.val) ELSE NoValue
            /\ err' = res.err
            /\ unread' = res.rest
    /\ call' = [op |-> "read_link"]
    /\ UNCHANGED log

\* the first n bytes of an item arrive, n less than its length
ReceiveCut ==
    /\ call.op = "init"
    /\ \E b \in CutItems :
        \E n \in 0..(Len(b) - 1) :
            /\ call' = [op |-> "cut", of |-> b]
            /\ wire' = SubSeq(b, 1, n)
    /\ UNCHANGED <<value, err, unread, log>>

\* a call of read_key(r, key)
ReadKey ==
    /\ call.op = "init"
    /\ \E key \in KeySamples :
        \E b \in KeySources(key) :
            LET res == read_key(b, key)
            IN  /\ call' = [op |-> "read_key", key |-> key]
                /\ wire' = b
                /\ err' = res.err
                /\ unread' = res.rest
    /\ value' = NoValue
    /\ UNCHANGED log

\* a call of Encode for i8, i16, i32 or i64 on an empty sink; the call
\* records the value encoded as an i128
EncodeSigned ==
    /\ call.op = "init"
    /\ \/ \E T \in {Ty("i8"), Ty("i16")} :
            \E n \in SignedSamples(T) :
                \E res \in encode_signed(T, n) :
                    /\ call' = [op |-> "encode_signed", T |-> T, n |-> I128(n)]
                    /\ wire' = res.out
                    /\ err' = res.err
       \/ \E T \in {Ty("i32"), Ty("i64")} :
            \E x \in SignedSamples(T) :
                \E res \in encode_signed(T, x) :
                    /\ call' = [op |-> "encode_signed", T |-> T, n |-> SignExt(x, 8)]
                    /\ wire' = res.out
                    /\ err' = res.err
    /\ value' = NoValue
    /\ UNCHANGED <<unread, log>>

\* bytes of another producer arrive: any leading byte
ReceiveLead ==
    /\ call.op = "init"
    /\ \E b \in LeadWires : wire' = b
    /\ call' = [op |-> "wirelead"]
    /\ UNCHANGED <<value, err, unread, log>>

\* a call of T::try_read_cbor(r, major) by a caller that has read the
\* leading byte major; wire holds the leading byte and what followed it
TryReadCbor ==
    /\ call.op = "init"
    /\ \E T \in Types, b \in TypedWires :
        LET res == try_read_cbor(Tail(b), b[1], T)
        IN  /\ call' = [op |-> "try_read_cbor", T |-> T, major |-> b[1], some |-> res.some]
            /\ wire' = b
            /\ value' = IF res.some THEN [t |-> "typed", val |-> res.val] ELSE NoValue
            /\ err' = res.err
            /\ unread' = res.rest
    /\ UNCHANGED log

\* the session ends: its value and buffer are dropped
Drop ==
    /\ call.op # "init"
    /\ call' = [op |-> "init"]
    /\ value' = NoValue
    /\ wire' = <<>>
    /\ err' = "none"
    /\ unread' = <<>>
    /\ log' = <<>>

Next ==
    \/ WriteU64 \/ EncodeF32 \/ Supply \/ ReceiveForm \/ ReceiveMap \/ ReceiveTag
    \/ ReceiveLead \/ TryReadCbor \/ ReceiveCut \/ ReadKey \/ EncodeSigned
    \/ Encode \/ Decode \/ DecodeFloat \/ ReadLink \/ Drop

Spec == Init /\ [][Next]_vars

-----------------------------------------------------------------------------
(* Properties                                                              *)

RECURSIVE HasNonFinite(_)
\* v contains a float that is infinite or NaN
HasNonFinite(v) ==
    CASE v.t = "Float" -> v.float.e = 2047
      [] v.t = "List" -> \E i \in 1..Len(v.list) : HasNonFinite(v.list[i])
      [] v.t = "Map" -> \E i \in 1..Len(v.map) : HasNonFinite(v.map[i].v)
      [] OTHER -> FALSE

RECURSIVE Representable(_)
\* every integer of v is in [-2^64, 2^64 - 1]
Representable(v) ==
    CASE v.t = "Integer" ->
             \/ \A i \in 5..8 : v.int[i] = 0
             \/ \A i \in 5..8 : v.int[i] = 65535
      [] v.t = "List" -> \A i \in 1..Len(v.list) : Representable(v.list[i])
      [] v.t = "Map" -> \A i \in 1..Len(v.map) : Representable(v.map[i].v)
      [] OTHER -> TRUE

RECURSIVE HasShortLink(_)
\* v contains a link whose identifier has fewer than 23 bytes
HasShortLink(v) ==
    CASE v.t = "Link" -> Len(CidToBytes(v.cid)) + 1 < 24
      [] v.t = "List" -> \E i \in 1..Len(v.list) : HasShortLink(v.list[i])
      [] v.t = "Map" -> \E i \in 1..Len(v.map) : HasShortLink(v.map[i].v)
      [] OTHER -> FALSE

\* the session is: a value supplied, encoded (ops = 1), decoded (ops = 2)
AfterSupply(ops) ==
    /\ Len(log) = ops
    /\ log[1].call.op = "value"

\* C1 as stated: every representable value without a non-finite float
\* encodes, and decoding the bytes returns an equal value.
C1_RoundTripEveryValue ==
    /\ (call.op = "encode" /\ AfterSupply(1)
          /\ Representable(value) /\ ~HasNonFinite(value))
       => err = "none"
    /\ (call.op = "decode" /\ AfterSupply(2)
          /\ Representable(log[1].value) /\ ~HasNonFinite(log[1].value))
       => (err = "none" /\ IpldEq(value, log[1].value))

\* C1 amended: every representable value that contains no non-finite float
\* and no link whose identifier has binary length + 1 below 24 encodes, and
\* decoding the bytes returns an equal value.
C1_RoundTrip ==
    /\ (call.op = "encode" /\ AfterSupply(1)
          /\ Representable(value) /\ ~HasNonFinite(value))
       => err = "none"
    /\ (call.op = "decode" /\ AfterSupply(2)
          /\ Representable(log[1].value) /\ ~HasNonFinite(log[1].value)
          /\ ~HasShortLink(log[1].value))
       => (err = "none" /\ IpldEq(value, log[1].value))

\* the value of the test in lib.rs has made the round trip
C1_Witness ==
    /\ call.op = "decode" /\ AfterSupply(2)
    /\ log[1].value = TestValue
    /\ err = "none"
    /\ value = TestValue

\* C2: write_u64(m, x) writes one header of the smallest of the five forms
\* that holds x, followed by the big-endian bytes of x in that form.
C2_CanonicalMinimality ==
    call.op = "write_u64" =>
        LET m == call.major
            x == call.mag
            \* byte k of x, byte 0 the least significant
            byte(k) == (x[(k \div 2) + 1] \div (IF k % 2 = 0 THEN 1 ELSE 256)) % 256
            be(n) == [j \in 1..n |-> byte(n - j)]
            small == x[2] = 0 /\ x[3] = 0 /\ x[4] = 0
        IN  IF small /\ x[1] <= 23 THEN wire = <<m * 32 + x[1]>>
            ELSE IF small /\ x[1] <= 255 THEN wire = <<m * 32 + 24>> \o be(1)
            ELSE IF small THEN wire = <<m * 32 + 25>> \o be(2)
            ELSE IF x[3] = 0 /\ x[4] = 0 THEN wire = <<m * 32 + 26>> \o be(4)
            ELSE wire = <<m * 32 + 27>> \o be(8)

\* write_u64(3, 65535) has written the 2-byte form 0x79 0xff 0xff
C2_Witness ==
    /\ call.op = "write_u64"
    /\ call.major = 3
    /\ call.mag = <<65535, 0, 0, 0>>
    /\ wire = <<121, 255, 255>>

\* the session is: bytes of another producer received, then ops calls
AfterReceive(ops) ==
    /\ Len(log) = ops
    /\ log[1].call.op = "wire"

\* C3: decode accepts an integer or a length in any of the five width forms
\* and yields the value of the minimal form; encoding that value yields
\* the minimal-width bytes, and decoding and encoding again yields them
\* again.
C3_IdempotentCanonicalization ==
    /\ (call.op = "decode" /\ AfterReceive(1))
       => /\ err = "none"
          /\ value = read_ipld(foreign(log[1].call.of, 0)).val
          /\ value = log[1].call.of
    /\ (call.op = "encode" /\ AfterReceive(2))
       => /\ err = "none"
          /\ wire = foreign(log[1].call.of, 0)
    /\ (call.op = "decode" /\ AfterReceive(3))
       => (err = "none" /\ value = log[3].value)
    /\ (call.op = "encode" /\ AfterReceive(4))
       => (err = "none" /\ wire = log[4].wire)

\* a one-element list written with 8-byte widths throughout has been
\* decoded, encoded in two bytes, decoded and encoded again
C3_Witness ==
    /\ call.op = "encode" /\ AfterReceive(4)
    /\ log[1].call.form = 4
    /\ log[1].wire = <<155, 0, 0, 0, 0, 0, 0, 0, 1, 27, 0, 0, 0, 0, 0, 0, 0, 1>>
    /\ wire = <<129, 1>>

KeysAscending(m) == \A i \in 1..(Len(m) - 1) : StrLt(m[i].k, m[i + 1].k)

DistinctKeys(ps) == \A i, j \in 1..Len(ps) : ps[i].k = ps[j].k => i = j

Perms(n) == { q \in [1..n -> 1..n] : \A i, j \in 1..n : q[i] = q[j] => i = j }

\* the wire map of the pairs ps in the order q
Reordered(ps, q) == foreign_map([i \in 1..Len(ps) |-> ps[q[i]]])

\* the bytes of the entries of m, those of the least key first
AscendingEntries(m) ==
    LET at(j) == CHOOSE i \in 1..Len(m) :
                    Cardinality({x \in 1..Len(m) : StrLt(m[x].k, m[i].k)}) = j - 1
    IN  Concat([j \in 1..Len(m) |->
                  encode_str(m[at(j)].k).out \o encode_ipld(m[at(j)].v).out])

\* the session is: a wire map received, then ops calls
AfterMap(ops) ==
    /\ Len(log) = ops
    /\ log[1].call.op = "wiremap"

\* encoding a Map emits its entries in ascending key order
C4_EncodeAscending ==
    (call.op = "encode" /\ AfterSupply(1) /\ value.t = "Map" /\ err = "none")
    => wire = write_u64(5, FromNat(Len(value.map), 4)) \o AscendingEntries(value.map)

\* decoding a wire map yields a Map that iterates its keys in ascending order
C4_DecodeAscending ==
    (call.op = "decode" /\ AfterMap(1))
    => /\ err = "none"
       /\ value.t = "Map"
       /\ KeysAscending(value.map)
       /\ {value.map[i].k : i \in 1..Len(value.map)}
             = {log[1].call.pairs[i].k : i \in 1..Len(log[1].call.pairs)}

\* every reordering of the pairs ps decodes to the value decoded, and
\* encodes to the bytes written
C4_OrderIrrelevant(ps) ==
    /\ (call.op = "decode" /\ AfterMap(1))
       => \A q \in Perms(Len(ps)) : read_ipld(Reordered(ps, q)).val = value
    /\ (call.op = "encode" /\ AfterMap(2))
       => \A q \in Perms(Len(ps)) :
             encode_ipld(read_ipld(Reordered(ps, q)).val).out = wire

\* C4 as stated: a Map is encoded in ascending key order, a wire map in any
\* order decodes to a Map in ascending key order, and two wire maps that
\* differ only in the order of their entries decode to equal values and
\* encode again to identical bytes.
C4_MapOrderingAnyPairs ==
    /\ C4_EncodeAscending
    /\ C4_DecodeAscending
    /\ (Len(log) >= 1 /\ log[1].call.op = "wiremap")
       => C4_OrderIrrelevant(log[1].call.pairs)

\* C4 amended: the same, for two wire maps of pairwise distinct keys that
\* differ only in the order of their entries.
C4_MapOrdering ==
    /\ C4_EncodeAscending
    /\ C4_DecodeAscending
    /\ (Len(log) >= 1 /\ log[1].call.op = "wiremap" /\ DistinctKeys(log[1].call.pairs))
       => C4_OrderIrrelevant(log[1].call.pairs)

\* the wire map {"b": 1, "ab": null, "a": 1} has been decoded into a Map in
\* key order and encoded with "a" first
C4_Witness ==
    /\ call.op = "encode" /\ AfterMap(2)
    /\ log[1].call.pairs = << [k |-> <<98>>, v |-> Integer(I128(1))],
                              [k |-> <<97, 98>>, v |-> Null],
                              [k |-> <<97>>, v |-> Integer(I128(1))] >>
    /\ wire = <<163, 97, 97, 1, 98, 97, 98, 246, 97, 98, 1>>

\* C5: decoding a wire map of N pairs in which a key occurs more than once
\* succeeds, reads all N pairs and yields a Map that holds for every key
\* the value of its last occurrence only, so fewer than N entries.
C5_DuplicateKeyLastWins ==
    (call.op = "decode" /\ AfterMap(1) /\ ~DistinctKeys(log[1].call.pairs))
    => LET ps == log[1].call.pairs
           last(k) == CHOOSE i \in 1..Len(ps) :
                         ps[i].k = k /\ \A j \in (i + 1)..Len(ps) : ps[j].k # k
       IN  /\ err = "none"
           /\ unread = <<>>
           /\ value.t = "Map"
           /\ Len(value.map) < Len(ps)
           /\ \A i \in 1..Len(ps) :
                 Cardinality({x \in 1..Len(value.map) : value.map[x].k = ps[i].k}) = 1
           /\ \A x \in 1..Len(value.map) : value.map[x].v = ps[last(value.map[x].k)].v

\* the wire map a: null, b: 1, a: 1 has been decoded into {a: 1, b: 1}
C5_Witness ==
    /\ call.op = "decode" /\ AfterMap(1)
    /\ wire = <<163, 97, 97, 246, 97, 98, 1, 97, 97, 1>>
    /\ value = Map(<< [k |-> <<97>>, v |-> Integer(I128(1))],
                      [k |-> <<98>>, v |-> Integer(I128(1))] >>)

\* C6: a Link whose identifier has binary length + 1 of at least 24 encodes,
\* and decoding the bytes returns the Link.
C6_LinkRoundTrip ==
    /\ (call.op = "encode" /\ AfterSupply(1) /\ value.t = "Link") => err = "none"
    /\ (call.op = "decode" /\ AfterSupply(2) /\ log[1].value.t = "Link"
          /\ Len(CidToBytes(log[1].value.cid)) + 1 >= 24)
       => (err = "none" /\ value = log[1].value)

\* the identifier of the test in lib.rs, 36 bytes, has made the round trip
\* through the 1-byte length 0x58 0x25
C6_Witness ==
    /\ call.op = "decode" /\ AfterSupply(2)
    /\ log[1].value = Link(CidOfTest)
    /\ SubSeq(wire, 1, 5) = <<216, 42, 88, 37, 0>>
    /\ value = Link(CidOfTest)

\* C7: read_link returns an identifier only for tag value 42, length code
\* 0x58, a nonzero length L and L bytes of which the first is 0x00; another
\* tag value or length code is rejected, a nonzero first byte fails with
\* the invalid-prefix error, and what the encoder writes for an identifier
\* of length + 1 <= 23 is rejected by the decoder.
C7_StrictLinkDecode ==
    /\ (call.op = "read_link" /\ err = "none")
       => /\ Len(wire) >= 4
          /\ wire[1] = 42
          /\ wire[2] = 88
          /\ wire[3] # 0
          /\ Len(wire) >= 3 + wire[3]
          /\ wire[4] = 0
          /\ value.t = "Link"
    /\ (call.op = "read_link" /\ Len(wire) >= 1 /\ wire[1] # 42) => err = "UnknownTag"
    /\ (call.op = "read_link" /\ Len(wire) >= 2 /\ wire[1] = 42 /\ wire[2] # 88)
       => err = "UnknownTag"
    /\ (call.op = "read_link" /\ Len(wire) >= 4 /\ wire[1] = 42 /\ wire[2] = 88
          /\ wire[3] # 0 /\ Len(wire) >= 3 + wire[3] /\ wire[4] # 0)
       => err = "InvalidCidPrefix"
    /\ (call.op = "decode" /\ AfterSupply(2) /\ log[1].value.t = "Link"
          /\ Len(CidToBytes(log[1].value.cid)) + 1 <= 23)
       => (err = "UnknownTag" /\ wire[3] \in 64..87)

\* the 6-byte identifier 01 71 00 02 0b 16 was encoded with the inline
\* length 0x47 and the decoder has rejected it
C7_Witness ==
    /\ call.op = "decode" /\ AfterSupply(2)
    /\ log[1].value = Link([version |-> 1, codec |-> 113, code |-> 0, digest |-> Digest(2)])
    /\ wire = <<216, 42, 71, 0, 1, 113, 0, 2, 11, 22>>
    /\ err = "UnknownTag"

\* what C8 says is written for a non-finite float
NonFiniteBytes(x) ==
    IF AllZero(x.m) THEN IF x.s = 0 THEN <<249, 124, 0>> ELSE <<249, 252, 0>>
    ELSE <<249, 126, 0>>

\* C8: a non-finite f32 or f64 is written as f9 7c 00, f9 fc 00 or f9 7e 00,
\* and decoding these bytes as Ipld, f32 or f64 fails, so that no value
\* that contains a non-finite float is decoded from its encoding.
C8_NonFiniteAsymmetry ==
    /\ (call.op = "encode_f32" /\ call.x.e = 255)
       => (err = "none" /\ wire = NonFiniteBytes(call.x))
    /\ (call.op = "encode" /\ AfterSupply(1) /\ value.t = "Float" /\ value.float.e = 2047)
       => (err = "none" /\ wire = NonFiniteBytes(value.float))
    /\ (call.op \in {"decode", "decode_as"} /\ Len(log) = 1
          /\ log[1].call.op = "encode_f32" /\ log[1].call.x.e = 255)
       => (err = "UnexpectedCode" /\ value = NoValue)
    /\ (call.op \in {"decode", "decode_as"} /\ AfterSupply(2)
          /\ log[1].value.t = "Float" /\ log[1].value.float.e = 2047)
       => (err = "UnexpectedCode" /\ value = NoValue)
    /\ (call.op = "decode" /\ AfterSupply(2) /\ HasNonFinite(log[1].value))
       => (err # "none" /\ value = NoValue)

\* a NaN f64 was written as f9 7e 00 and its decode as f64 has failed
C8_Witness ==
    /\ call.op = "decode_as" /\ call.ty = "f64" /\ AfterSupply(2)
    /\ log[1].value.t = "Float"
    /\ is_nan(log[1].value.float)
    /\ wire = <<249, 126, 0>>
    /\ err = "UnexpectedCode"

\* C9: encoding an i128 n fails with NumberOutOfRange, nothing written,
\* exactly when n < -2^64 or n > 2^64 - 1; otherwise it writes major type
\* 0 with magnitude n, or major type 1 with magnitude -1 - n when n < 0.
C9_IntegerRange ==
    (call.op = "encode" /\ AfterSupply(1) /\ value.t = "Integer")
    => LET n == value.int
       IN  IF \A i \in 5..8 : n[i] = 0
           THEN err = "none" /\ wire = write_u64(0, <<n[1], n[2], n[3], n[4]>>)
           ELSE IF \A i \in 5..8 : n[i] = 65535
           THEN /\ err = "none"
                /\ wire = write_u64(1, <<65535 - n[1], 65535 - n[2],
                                         65535 - n[3], 65535 - n[4]>>)
           ELSE err = "NumberOutOfRange" /\ wire = <<>>

\* the boundary -2^64 has been written as 3b ff ff ff ff ff ff ff ff, and
\* -2^64 - 1 has been refused
C9_Witness ==
    /\ call.op = "encode" /\ AfterSupply(1)
    /\ \/ /\ value = Integer(<<0, 0, 0, 0, 65535, 65535, 65535, 65535>>)
          /\ wire = <<59, 255, 255, 255, 255, 255, 255, 255, 255>>
       \/ /\ value = Integer(<<65535, 65535, 65535, 65535, 65534, 65535, 65535, 65535>>)
          /\ err = "NumberOutOfRange"

\* the session is: an item of major type 6 received and decoded
AfterTag ==
    /\ call.op = "decode"
    /\ Len(log) = 1
    /\ log[1].call.op = "wiretag"

\* C10: decode of an item of major type 6 fails with UnknownTag both for
\* 0xd8 followed by a tag value other than 42 and for every other tag
\* width, 0xc0-0xd7 and 0xd9-0xdb.  (The code returns UnknownTag after 0xd8
\* only; every other tag byte is declined and read returns UnexpectedCode.)
C10_UnknownTagEveryWidth ==
    /\ (AfterTag /\ wire[1] = 216 /\ Len(wire) >= 2 /\ wire[2] # 42) => err = "UnknownTag"
    /\ (AfterTag /\ wire[1] \in (192..215) \cup (217..219)) => err = "UnknownTag"

\* tag 42 in the 2-byte form d9 00 2a, followed by a well-formed link body,
\* has been refused with UnexpectedCode
C10_Witness ==
    /\ AfterTag
    /\ Len(wire) > 3
    /\ SubSeq(wire, 1, 3) = <<217, 0, 42>>
    /\ err = "UnexpectedCode"

RECURSIVE Accepted(_)
\* the leading bytes that are those of type T
Accepted(T) ==
    CASE T.k = "bool" -> {244, 245}
      [] T.k = "u8" -> 0..24
      [] T.k = "u16" -> 0..25
      [] T.k = "u32" -> 0..26
      [] T.k = "u64" -> 0..27
      [] T.k = "i8" -> 32..56
      [] T.k = "i16" -> 32..57
      [] T.k = "i32" -> 32..58
      [] T.k = "i64" -> 32..59
      [] T.k = "f32" -> {250}
      [] T.k = "f64" -> {250, 251}
      [] T.k = "bytes" -> 64..91
      [] T.k = "String" -> 96..123
      [] T.k = "Vec" -> 128..155
      [] T.k = "BTreeMap" -> 160..187
      [] T.k = "Cid" -> {216}
      [] T.k = "Option" -> {246, 247} \cup Accepted(T.of)

\* the leading bytes of major types 0-5 with additional information 28-31
Reserved == { 32 * m + i : m \in 0..5, i \in 28..31 }

\* C11: decode of a generic value whose leading byte is reserved (major
\* type 0-5, additional information 28-31) fails with UnexpectedCode, and
\* try_read_cbor of every type, given a leading byte that is not one of the
\* type's, returns Ok(None) and reads no byte.
C11_ReservedDeclined ==
    /\ (call.op = "decode" /\ Len(log) = 1 /\ log[1].call.op = "wirelead"
          /\ wire[1] \in Reserved)
       => (err = "UnexpectedCode" /\ value = NoValue)
    /\ (call.op = "try_read_cbor" /\ call.major \notin Accepted(call.T))
       => /\ err = "none"
          /\ ~call.some
          /\ value = NoValue
          /\ unread = Tail(wire)

\* Option<Vec<u8>> has declined the reserved byte 0x9c and left the nine
\* bytes after it unread
C11_Witness ==
    /\ call.op = "try_read_cbor"
    /\ call.T = Option(Vec(Ty("u8")))
    /\ wire = <<156>> \o Fill(9, 255)
    /\ ~call.some
    /\ unread = Fill(9, 255)

\* b is one item: it decodes, and the decode reads all of it
OneItem(b) == LET res == read_ipld(b) IN res.err = "none" /\ res.rest = <<>>

\* the session is: a strict prefix of an item received and decoded
AfterCut ==
    /\ call.op = "decode"
    /\ Len(log) = 1
    /\ log[1].call.op = "cut"

\* C12: when b decodes as one value, decode of every strict prefix of b,
\* the empty one included, fails with the I/O error and returns no value.
C12_TruncationIsIo ==
    (AfterCut /\ OneItem(log[1].call.of)) => (err = "Io" /\ value = NoValue)

\* the value of the test in lib.rs, cut inside the text "hello" two levels
\* down, has failed with the I/O error
C12_Witness ==
    /\ AfterCut
    /\ log[1].call.of = encode_ipld(TestValue).out
    /\ Len(wire) > 4
    /\ SubSeq(wire, Len(wire) - 3, Len(wire)) = <<101, 104, 101, 108>>
    /\ err = "Io"

\* the text string item of key: the header of major type 3 that carries
\* the length of key, then key
TextItem(key) == write_u64(3, FromNat(Len(key), 4)) \o key

\* b starts with the item a
StartsWith(b, a) == Len(b) >= Len(a) /\ SubSeq(b, 1, Len(a)) = a

\* C13: read_key(key) succeeds exactly when the reader holds the text
\* string item of key, for keys of every length, 24 bytes and more
\* included; when it holds something else of at least that many bytes, it
\* fails with UnexpectedKey.  (The code reads Len(key) + 1 bytes and
\* compares all but the first with key: no header is checked, and a key of
\* 24 bytes or more is compared with its own 2-byte header shifted in.)
C13_ReadKeyExact ==
    call.op = "read_key"
    => /\ err = "none" <=> StartsWith(wire, TextItem(call.key))
       /\ (Len(wire) >= Len(TextItem(call.key)) /\ ~StartsWith(wire, TextItem(call.key)))
          => err = "UnexpectedKey"

\* the key "a" has been accepted behind a byte string header, and the text
\* string item of a key of 24 bytes has been refused
C13_Witness ==
    /\ call.op = "read_key"
    /\ \/ /\ call.key = <<97>>
          /\ wire = <<65, 97>>
          /\ err = "none"
       \/ /\ call.key = Fill(24, 97)
          /\ wire = <<120, 24>> \o Fill(24, 97)
          /\ err = "UnexpectedKey"

\* the signed fixed-width types, and the greatest leading byte of each
SignedTypes == { Ty("i8"), Ty("i16"), Ty("i32"), Ty("i64") }

LastLead(T) ==
    CASE T.k = "i8" -> 56
      [] T.k = "i16" -> 57
      [] T.k = "i32" -> 58
      [] T.k = "i64" -> 59

\* the unsigned magnitude u that an item of major type 1 carries, 4 limbs
Magnitude(b) ==
    CASE b[1] \in 32..55 -> FromNat(b[1] - 32, 4)
      [] b[1] = 56 -> FromNat(b[2], 4)
      [] b[1] = 57 -> FromNat(b[2] * 256 + b[3], 4)
      [] b[1] = 58 -> ZeroExt(BERead(SubSeq(b, 2, 5)), 4)
      [] b[1] = 59 -> BERead(SubSeq(b, 2, 9))

\* a value of a signed type as an i128
Widen(T, v) ==
    IF T.k \in {"i8", "i16"} THEN I128(v) ELSE SignExt(v, 8)

\* C14: try_read_cbor of i8, i16, i32 and i64, on an item of major type 1
\* with magnitude u in a form the type accepts, returns exactly -1 - u,
\* which is negative, also when u >= 2^(w-1) in the w-bit form of the w-bit
\* type.  (The code computes -1 - (u as iw), which wraps for such u: 38 ff
\* decodes as the i8 0.)
C14_NegativeExact ==
    (call.op = "try_read_cbor" /\ call.T \in SignedTypes
        /\ call.major \in 32..LastLead(call.T) /\ err = "none")
    => /\ call.some
       /\ Widen(call.T, value.val) = NotW(ZeroExt(Magnitude(wire), 8))
       /\ IsNegW(Widen(call.T, value.val))

\* 38 ff has been decoded as the i8 0, and 39 80 00 as the i16 32767
C14_Witness ==
    /\ call.op = "try_read_cbor"
    /\ err = "none"
    /\ call.some
    /\ Len(wire) >= 3
    /\ \/ call.T = Ty("i8") /\ SubSeq(wire, 1, 2) = <<56, 255>> /\ value.val = 0
       \/ call.T = Ty("i16") /\ SubSeq(wire, 1, 3) = <<57, 128, 0>> /\ value.val = 32767

\* C15: Encode for i8, i16, i32 and i64 overflows for no value n of the
\* type, and writes what Encode for Ipld writes for Integer(n): major type
\* 0 with magnitude n when n >= 0, major type 1 with magnitude -1 - n when
\* n < 0.  (The code writes major type 1 with magnitude -(n + 1) as uN for
\* every n, and n + 1 overflows for the greatest value of the type.)
C15_SignedEncodeAgrees ==
    call.op = "encode_signed"
    => LET n == call.n
       IN  /\ err = "none"
           /\ wire = encode_ipld(Integer(n)).out
           /\ wire = IF IsNegW(n) THEN write_u64(1, Trunc(NotW(n), 4))
                     ELSE write_u64(0, Trunc(n, 4))

\* the i8 0 has been written as 38 ff, the i16 1 as 39 ff fe,
\* and Encode for i8 has panicked on 127
C15_Witness ==
    /\ call.op = "encode_signed"
    /\ \/ call.T = Ty("i8") /\ call.n = I128(0) /\ wire = <<56, 255>>
       \/ call.T = Ty("i16") /\ call.n = I128(1) /\ wire = <<57, 255, 254>>
       \/ call.T = Ty("i8") /\ call.n = I128(127) /\ err = "panic"

====
